---- MODULE Spec2Model ----
(***************************************************************************)
(* A model of the euchre table of main.py: the deck, the four players'     *)
(* hands, trump negotiation, follow-suit filtering in Player.play_card,    *)
(* trick resolution in EuchreTable.process_trick and round scoring in      *)
(* EuchreTable.process_round.                                              *)
(*                                                                         *)
(* Python's None is modelled by the string "None" for suits, by NoCard for *)
(* cards and by NoSeat (-1) for seats.  A Suit enum member is its name     *)
(* ("SPADES"); its .value, the glyph string, is SuitValue of it: Python    *)
(* compares the two unequal, and so does the model.                        *)
(***************************************************************************)
EXTENDS Integers, Sequences, FiniteSets, TLC

\* ------------------------------------------------------------------ bounds

\* How many outcomes of random.shuffle the model explores.
NumShuffles == 1
\* The largest hand enumerated when play_card is checked on its own.
MaxHand == 2
\* In how many orders each hand is handed to sort_hand when it is checked on
\* its own.
NumOrders == 1
\* How many rounds the model follows a table on which a round can be given
\* up for want of a trump (every seat bids at random): such a table may go on
\* without end.  Any other table scores in every round and is followed to
\* the end of its game.
MaxRounds == 3

\* ------------------------------------------------------- cards and the deck

None == "None"
NoSeat == -1
Seats == 0..3

Suits == {"SPADES", "HEARTS", "CLUBS", "DIAMONDS"}
Ranks == {"9", "10", "J", "Q", "K", "A"}

\* Suit.value: the glyph of a suit, a plain string that is no Suit member.
SuitValue(s) ==
  CASE s = "SPADES" -> "u2664"
    [] s = "HEARTS" -> "u2661"
    [] s = "CLUBS" -> "u2667"
    [] s = "DIAMONDS" -> "u2662"

SuitValues == {SuitValue(s) : s \in Suits}

\* EuchreTable.__init__: the rank and suit lists the deck is built from.
ranks == <<"9", "10", "J", "Q", "K", "A">>
suits == <<"SPADES", "HEARTS", "CLUBS", "DIAMONDS">>

\* A Card object is its index in Deck.base, which Deck.__init__ builds
\* suit-major and rank-minor: card i has rank Rank(i) and suit Suit(i).
Cards == 1..24
NoCard == 0
Rank(c) == ranks[((c - 1) % 6) + 1]
Suit(c) == suits[((c - 1) \div 6) + 1]
Card(r, s) == CHOOSE c \in Cards : Rank(c) = r /\ Suit(c) = s
base == [i \in 1..24 |-> i]

\* Deck.shuffle: current becomes a permutation of base.  random.shuffle may
\* give any of the 24! orders; the model explores NumShuffles of them, the
\* k-th being the affine permutation i -> Mult(k) * i + 5 * k (mod 24).
Mult(k) == <<7, 5, 11, 13, 17, 19, 23, 1>>[((k - 1) % 8) + 1]
shuffle(k) == [i \in 1..24 |-> base[((Mult(k) * i + 5 * k) % 24) + 1]]

Range(q) == {q[i] : i \in 1..Len(q)}

\* Deck.deal_one_card pops the last card: the first n cards dealt, in order.
DealN(d, n) == [i \in 1..n |-> d[Len(d) + 1 - i]]
AfterDeal(d, n) == SubSeq(d, 1, Len(d) - n)

\* list.remove / list.pop of a card that occurs once in the list.
RECURSIVE Remove(_, _)
Remove(q, c) ==
  IF q = <<>> THEN <<>>
  ELSE IF Head(q) = c THEN Tail(q)
  ELSE <<Head(q)>> \o Remove(Tail(q), c)

\* Python truthiness of a suit-or-None / card-or-None value.
Truthy(x) == x # None
IsCard(c) == c # NoCard

\* ------------------------------------------------------------- Player

\* The key function of Player.sort_hand.
compare_trump(card, trump, left_bower) ==
  IF Truthy(trump) /\ Rank(card) = "J" /\ Suit(card) = trump THEN -7
  ELSE IF Truthy(trump) /\ Rank(card) = "J" /\ Suit(card) = left_bower THEN -6
  ELSE LET value == CASE Rank(card) = "A" -> 1
                      [] Rank(card) = "K" -> 2
                      [] Rank(card) = "Q" -> 3
                      [] Rank(card) = "J" -> 4
                      [] Rank(card) = "10" -> 5
                      [] Rank(card) = "9" -> 6
                      [] OTHER -> 0
       IN CASE Suit(card) = trump -> value - 6
            [] Suit(card) = "SPADES" -> value + 0
            [] Suit(card) = "HEARTS" -> value + 6
            [] Suit(card) = "CLUBS" -> value + 12
            [] Suit(card) = "DIAMONDS" -> value + 18
            [] OTHER -> value

\* InsertByKey that looks no further than the first card of the list.
InsertByHead(q, c, trump, left_bower) ==
  IF q = <<>> THEN <<c>>
  ELSE IF compare_trump(c, trump, left_bower) < compare_trump(Head(q), trump, left_bower)
       THEN <<c>> \o q
       ELSE <<Head(q), c>> \o Tail(q)

\* list.sort(key = compare_trump) is stable: a card goes after every card
\* whose key is not larger.
RECURSIVE InsertByKey(_, _, _, _)
InsertByKey(q, c, trump, left_bower) ==
  IF q = <<>> THEN <<c>>
  ELSE IF compare_trump(c, trump, left_bower) < compare_trump(Head(q), trump, left_bower)
       THEN <<c>> \o q
       ELSE <<Head(q)>> \o InsertByKey(Tail(q), c, trump, left_bower)

RECURSIVE SortFrom(_, _, _, _)
SortFrom(done, rest, trump, left_bower) ==
  IF rest = <<>> THEN done
  ELSE \* the list with the next card inserted is a value before the rest is sorted
       CHOOSE sorted \in {SortFrom(longer, Tail(rest), trump, left_bower) :
                            longer \in {InsertByKey(done, Head(rest), trump, left_bower)}} : TRUE

\* Player.sort_hand
sort_hand(h, trump, left_bower) == SortFrom(<<>>, h, trump, left_bower)

\* decide_trump with every suit on offer in the second bidding round.
decide_trump_any_suit(logic, up, hidden) ==
  IF logic = "ALWAYS_ACCEPT"
  THEN IF IsCard(up) THEN {Suit(up)} ELSE {"AttributeError"}
  ELSE IF logic = "RANDOM"
  THEN IF IsCard(up) THEN {Suit(up), None}
       ELSE IF IsCard(hidden)
            THEN {SuitValue(e) : e \in Suits} \cup {None}
            ELSE {"AttributeError"}
  ELSE IF IsCard(up) THEN {Suit(up)} ELSE {"AttributeError"}

\* decide_trump with a seat that bids at random free to name any suit while
\* the up-card is on offer.
decide_trump_free_choice(logic, up, hidden) ==
  IF logic = "ALWAYS_ACCEPT"
  THEN IF IsCard(up) THEN {Suit(up)} ELSE {"AttributeError"}
  ELSE IF logic = "RANDOM"
  THEN IF IsCard(up) THEN Suits \cup {None}
       ELSE IF IsCard(hidden)
            THEN {SuitValue(e) : e \in {x \in Suits : x # Suit(hidden)}} \cup {None}
            ELSE {"AttributeError"}
  ELSE IF IsCard(up) THEN {Suit(up)} ELSE {"AttributeError"}

\* decide_trump with a seat that always accepts free to pass on the up-card.
decide_trump_may_pass(logic, up, hidden) ==
  IF logic = "ALWAYS_ACCEPT"
  THEN IF IsCard(up) THEN {Suit(up), None} ELSE {"AttributeError"}
  ELSE IF logic = "RANDOM"
  THEN IF IsCard(up) THEN {Suit(up), None}
       ELSE IF IsCard(hidden)
            THEN {SuitValue(e) : e \in {x \in Suits : x # Suit(hidden)}} \cup {None}
            ELSE {"AttributeError"}
  ELSE IF IsCard(up) THEN {Suit(up)} ELSE {"AttributeError"}

\* Player.decide_trump: the values the call may return; "AttributeError"
\* stands for the exception raised by up_card.suit when up_card is None.
decide_trump(logic, up, hidden) ==
  IF logic = "ALWAYS_ACCEPT"
  THEN IF IsCard(up) THEN {Suit(up)} ELSE {"AttributeError"}
  ELSE IF logic = "RANDOM"
  THEN IF IsCard(up) THEN {Suit(up), None}
       ELSE IF IsCard(hidden)
            THEN {SuitValue(e) : e \in {x \in Suits : x # Suit(hidden)}} \cup {None}
            ELSE {"AttributeError"}
  ELSE IF IsCard(up) THEN {Suit(up)} ELSE {"AttributeError"}

\* Follows with the left bower Jack kept in its printed suit.
FollowsPrintedSuit(card, lead_card, trump, left_bower) ==
  IF Suit(lead_card) = trump /\ Suit(card) = left_bower /\ Rank(card) = "J" THEN TRUE
  ELSE IF Suit(lead_card) = left_bower /\ Rank(lead_card) = "J" /\ Suit(card) = trump THEN TRUE
  ELSE Suit(lead_card) = Suit(card)

\* Follows without the left bower Jack following a trump lead.
FollowsWithoutLeftBower(card, lead_card, trump, left_bower) ==
  IF Suit(lead_card) = left_bower /\ Rank(lead_card) = "J" /\ Suit(card) = trump THEN TRUE
  ELSE IF Suit(lead_card) = Suit(card)
       THEN ~(Rank(card) = "J" /\ Suit(card) = left_bower)
       ELSE FALSE

\* Player.play_card, lines 168-177: whether a card of the hand is appended
\* to playable_cards for the given lead card.
Follows(card, lead_card, trump, left_bower) ==
  IF Suit(lead_card) = trump /\ Suit(card) = left_bower /\ Rank(card) = "J" THEN TRUE
  ELSE IF Suit(lead_card) = left_bower /\ Rank(lead_card) = "J" /\ Suit(card) = trump THEN TRUE
  ELSE IF Suit(lead_card) = Suit(card)
       THEN ~(Rank(card) = "J" /\ Suit(card) = left_bower)
       ELSE FALSE

\* The filtered list, in hand order.
RECURSIVE Filtered(_, _, _, _)
Filtered(h, lead_card, trump, left_bower) ==
  IF h = <<>> THEN <<>>
  ELSE (IF Follows(Head(h), lead_card, trump, left_bower) THEN <<Head(h)>> ELSE <<>>)
       \o Filtered(Tail(h), lead_card, trump, left_bower)

\* Fallback without the fallback.
NoFallback(filtered, h) == filtered

\* An empty filter result falls back to the whole hand (lines 179-180).
Fallback(filtered, h) == IF filtered = <<>> THEN h ELSE filtered

\* Player.play_card, lines 162-180: the local playable_cards.
PlayableCards(h, lead_card, trump, left_bower) ==
  IF ~IsCard(lead_card) THEN h
  ELSE Fallback(Filtered(h, lead_card, trump, left_bower), h)

\* Player.play_card, lines 182-187: the cards the call may return.
\* None when random.choice or list.pop raises IndexError on an empty list.
ChosenCards(logic, h, playable) ==
  IF logic = "RANDOM" THEN Range(playable)
  ELSE IF h = <<>> THEN {} ELSE {h[Len(h)]}

\* ------------------------------------------------------------- EuchreTable

\* assign_card_value with the values of sort_hand's key, where the Ace is lowest.
sort_rank_value(card) ==
  CASE Rank(card) = "A" -> 1
    [] Rank(card) = "K" -> 2
    [] Rank(card) = "Q" -> 3
    [] Rank(card) = "J" -> 4
    [] Rank(card) = "10" -> 5
    [] Rank(card) = "9" -> 6
    [] OTHER -> 0

assign_card_value(card) ==
  CASE Rank(card) = "9" -> 0
    [] Rank(card) = "10" -> 1
    [] Rank(card) = "J" -> 2
    [] Rank(card) = "Q" -> 3
    [] Rank(card) = "K" -> 4
    [] Rank(card) = "A" -> 5
    [] OTHER -> 0

is_value_bigger(card1, card2) == assign_card_value(card1) > assign_card_value(card2)

\* determine_trump, lines 312-319: the left bower suit set for a trump;
\* no branch matches a value that is no Suit member, and the old value stays.
LeftBowerFor(trump, old) ==
  CASE trump = "SPADES" -> "CLUBS"
    [] trump = "HEARTS" -> "DIAMONDS"
    [] trump = "CLUBS" -> "SPADES"
    [] trump = "DIAMONDS" -> "HEARTS"
    [] OTHER -> old

\* Replaces without the branch for a winning left bower Jack (lines 362-364).
ReplacesLeftBowerAsPlain(cand, inc, lead_suit, trump, left_bower) ==
  IF Suit(inc) = trump
  THEN IF Rank(inc) = "J" THEN FALSE
       ELSE IF Suit(cand) = left_bower /\ Rank(cand) = "J" THEN TRUE
       ELSE IF Suit(cand) = trump THEN assign_card_value(cand) > assign_card_value(inc)
       ELSE FALSE
  ELSE IF Suit(cand) = trump THEN TRUE
  ELSE IF Suit(cand) = left_bower /\ Rank(cand) = "J" THEN TRUE
  ELSE IF Suit(cand) = lead_suit THEN assign_card_value(cand) > assign_card_value(inc)
  ELSE FALSE

\* Replaces with a winning left bower Jack beaten by every trump-suit card.
ReplacesLeftBowerByTrump(cand, inc, lead_suit, trump, left_bower) ==
  IF Suit(inc) = trump
  THEN IF Rank(inc) = "J" THEN FALSE
       ELSE IF Suit(cand) = left_bower /\ Rank(cand) = "J" THEN TRUE
       ELSE IF Suit(cand) = trump THEN is_value_bigger(cand, inc)
       ELSE FALSE
  ELSE IF Suit(inc) = left_bower /\ Rank(inc) = "J"
  THEN Suit(cand) = trump
  ELSE IF Suit(cand) = trump THEN TRUE
  ELSE IF Suit(cand) = left_bower /\ Rank(cand) = "J" THEN TRUE
  ELSE IF Suit(cand) = lead_suit THEN is_value_bigger(cand, inc)
  ELSE FALSE

\* process_trick, lines 353-372: whether the card of seat_processing
\* replaces the card of winning_player.
Replaces(cand, inc, lead_suit, trump, left_bower) ==
  IF Suit(inc) = trump
  THEN IF Rank(inc) = "J" THEN FALSE
       ELSE IF Suit(cand) = left_bower /\ Rank(cand) = "J" THEN TRUE
       ELSE IF Suit(cand) = trump THEN is_value_bigger(cand, inc)
       ELSE FALSE
  ELSE IF Suit(inc) = left_bower /\ Rank(inc) = "J"
  THEN Suit(cand) = trump /\ Rank(cand) = "J"
  ELSE IF Suit(cand) = trump THEN TRUE
  ELSE IF Suit(cand) = left_bower /\ Rank(cand) = "J" THEN TRUE
  ELSE IF Suit(cand) = lead_suit THEN is_value_bigger(cand, inc)
  ELSE FALSE

\* process_trick, lines 343-374: the loop over the four seats from lead.
RECURSIVE TrickLoop(_, _, _, _, _, _, _)
TrickLoop(cards_processed, seat_processing, winning_player, played, lead, trump, left_bower) ==
  IF cards_processed < 4
  THEN LET w == IF winning_player = -1 THEN seat_processing
                ELSE IF Replaces(played[seat_processing], played[winning_player],
                                 Suit(played[lead]), trump, left_bower)
                     THEN seat_processing
                     ELSE winning_player
       IN \* x: winning_player after this seat's card
          CHOOSE r \in {TrickLoop(cards_processed + 1, (seat_processing + 1) % 4, x,
                                    played, lead, trump, left_bower) : x \in {w}} : TRUE
  ELSE winning_player

\* process_trick: the winning seat.
process_trick(played, lead, trump, left_bower) ==
  TrickLoop(0, lead, -1, played, lead, trump, left_bower)

\* process_round taking seats 0 and 2 for the callers whoever called.
process_round_caller_02(caller, won_02, won_13, s02, s13) ==
  IF won_02 = 5 THEN <<s02 + 2, s13>>
  ELSE IF won_02 >= 3 THEN <<s02 + 1, s13>>
  ELSE <<s02, s13 + 2>>

\* process_round: the new <<score_02, score_13>>.
process_round(caller, won_02, won_13, s02, s13) ==
  IF caller \in {0, 2}
  THEN IF won_02 = 5 THEN <<s02 + 2, s13>>
       ELSE IF won_02 >= 3 THEN <<s02 + 1, s13>>
       ELSE <<s02, s13 + 2>>
  ELSE IF won_13 = 5 THEN <<s02, s13 + 2>>
       ELSE IF won_13 >= 3 THEN <<s02, s13 + 1>>
       ELSE <<s02 + 2, s13>>

\* NextDealer without the rotation.
SameDealer(d) == d

\* NextDealer with the deal passing to the right.
PreviousDealer(d) == (d + 3) % 4

\* play_round, lines 391 and 405: the dealer of the next round.
NextDealer(d) == (d + 1) % 4

\* DealerDraws that stops at the Jack of Spades alone.
RECURSIVE DealerDrawsSpades(_, _)
DealerDrawsSpades(d, n) ==
  IF n >= Len(d) THEN -1
  ELSE LET c == d[Len(d) - n]
       IN IF Rank(c) = "J" /\ Suit(c) = "SPADES" THEN n
          ELSE DealerDrawsSpades(d, n + 1)

\* determine_dealer, lines 252-258: how many cards are dealt after the first
\* one until a black Jack shows; -1 when the deck runs out first (pop from
\* an empty list).
RECURSIVE DealerDraws(_, _)
DealerDraws(d, n) ==
  IF n >= Len(d) THEN -1
  ELSE LET c == d[Len(d) - n]
       IN IF Rank(c) = "J" /\ Suit(c) \in {"SPADES", "CLUBS"} THEN n
          ELSE DealerDraws(d, n + 1)

max_hand_size == 5

\* play, line 455: the score that ends the game.
WinningScore == 10

\* GameRunning with "or" for the loop test's "and".
GameRunningEither(s02, s13) == s02 < WinningScore \/ s13 < WinningScore

\* play, line 455: the test of the while loop.
GameRunning(s02, s13) == s02 < WinningScore /\ s13 < WinningScore

\* euchre_deal_cards, lines 269-281: the dealing loop; gives the hands, the
\* deck and curr_seat it ends with.
RECURSIVE DealLoop(_, _, _, _, _)
DealLoop(h, d, cs, num_cards_to_deal, dlr) ==
  IF Len(h[dlr]) < max_hand_size
  THEN LET n == IF Len(h[cs]) = 0
                THEN (IF num_cards_to_deal = 3 THEN 2 ELSE 3)
                ELSE max_hand_size - Len(h[cs])
       IN \* x: the hands, the deck and num_cards_to_deal after this pack
          CHOOSE r \in {DealLoop(x[1], x[2], (cs + 1) % 4, x[3], dlr) :
                          x \in {<<[h EXCEPT ![cs] = @ \o DealN(d, n)], AfterDeal(d, n), n>>}} : TRUE
  ELSE [hand |-> h, deck |-> d, curr_seat |-> cs]

\* sort_player_hands
sort_player_hands(h, trump, left_bower) ==
  [s \in Seats |-> sort_hand(h[s], trump, left_bower)]

\* ------------------------------------------------------------------ state

VARIABLES
  trump_logic,       \* players[s].trump_decision_logic
  card_logic,        \* players[s].card_decision_logic
  hand,              \* players[s].hand
  deck,              \* deck.current
  dealer, curr_seat, up_card, hidden_up_card,
  trump_suit, left_bower_suit, lead_seat, trump_caller,
  score_02, score_13, cards_played, tricks_won_02, tricks_won_13,
  num_cards_played,  \* the local of play_trick
  playable_cards,    \* the local of the last play_card call
  rounds,            \* how many times play_round was entered
  pc                 \* where play() stands

vars == <<trump_logic, card_logic, hand, deck, dealer, curr_seat, up_card,
          hidden_up_card, trump_suit, left_bower_suit, lead_seat, trump_caller,
          score_02, score_13, cards_played, tricks_won_02, tricks_won_13,
          num_cards_played, playable_cards, rounds, pc>>

config == <<trump_logic, card_logic>>
scores == <<score_02, score_13>>
tricks_won == <<tricks_won_02, tricks_won_13>>

NoCards == [s \in Seats |-> NoCard]
EmptyHands == [s \in Seats |-> <<>>]

AllSeats(l) == [s \in Seats |-> l]

\* The tables the model constructs: main()'s (every seat RANDOM for both
\* decisions), the constructor's default (ALWAYS_ACCEPT, RANDOM), and tables
\* whose seats play their cards with PlayerCardDecision.PLAYER.
Tables ==
  { <<AllSeats("RANDOM"), AllSeats("PLAYER")>>,
    <<AllSeats("ALWAYS_ACCEPT"), [s \in Seats |-> IF s = 0 THEN "RANDOM" ELSE "PLAYER"]>>,
    <<[s \in Seats |-> IF s = 2 THEN "PLAYER" ELSE "RANDOM"], AllSeats("PLAYER")>> }

\* EuchreTable.__init__
Constructed ==
  /\ hand = EmptyHands
  /\ deck = <<>>
  /\ dealer = 0
  /\ curr_seat = 0
  /\ up_card = NoCard
  /\ hidden_up_card = NoCard
  /\ trump_suit = None
  /\ left_bower_suit = None
  /\ lead_seat = NoSeat
  /\ trump_caller = NoSeat
  /\ score_02 = 0
  /\ score_13 = 0
  /\ cards_played = NoCards
  /\ tricks_won_02 = 0
  /\ tricks_won_13 = 0
  /\ num_cards_played = 0
  /\ playable_cards = <<>>
  /\ rounds = 0

Init ==
  /\ \E t \in Tables : trump_logic = t[1] /\ card_logic = t[2]
  /\ Constructed
  /\ pc = "determine_dealer"

\* ---------------------------------------------------------------- actions

\* determine_dealer, lines 252-261: the cards dealt from the shuffled deck d
\* until a black Jack shows.
DealForDealer(d) ==
  /\ LET n == DealerDraws(d, 0)
     IN IF n = -1
        THEN /\ pc' = "crashed"
             /\ deck' = <<>>
             /\ UNCHANGED <<dealer, curr_seat>>
        ELSE /\ pc' = "play"
             /\ deck' = AfterDeal(d, n + 1)
             /\ dealer' = n % 4
             /\ curr_seat' = ((n % 4) + 1) % 4
  /\ UNCHANGED <<rounds, config, hand, up_card, hidden_up_card, trump_suit, left_bower_suit,
                 lead_seat, trump_caller, scores, cards_played, tricks_won,
                 num_cards_played, playable_cards>>

\* determine_dealer
DetermineDealer ==
  /\ pc = "determine_dealer"
  /\ \E k \in 1..NumShuffles : DealForDealer(shuffle(k))

\* play, line 455, entering play_round: euchre_deal_cards
EuchreDealCards ==
  /\ pc = "play"
  /\ GameRunning(score_02, score_13)
  /\ \E k \in 1..NumShuffles :
       \E r \in {DealLoop(hand, shuffle(k), curr_seat, 0, dealer)} :
          /\ up_card' = r.deck[Len(r.deck)]
          /\ deck' = AfterDeal(r.deck, 1)
          /\ hand' = sort_player_hands(r.hand, trump_suit, left_bower_suit)
          /\ curr_seat' = r.curr_seat
  /\ rounds < MaxRounds \/ \E s \in Seats : trump_logic[s] # "RANDOM"
  /\ rounds' = rounds + 1
  /\ pc' = "determine_trump"
  /\ UNCHANGED <<config, dealer, hidden_up_card, trump_suit, left_bower_suit,
                 lead_seat, trump_caller, scores, cards_played, tricks_won,
                 num_cards_played, playable_cards>>

\* play, line 455: the loop ends
GameOver ==
  /\ pc = "play"
  /\ ~GameRunning(score_02, score_13)
  /\ pc' = "game_over"
  /\ UNCHANGED <<rounds, config, hand, deck, dealer, curr_seat, up_card, hidden_up_card,
                 trump_suit, left_bower_suit, lead_seat, trump_caller, scores,
                 cards_played, tricks_won, num_cards_played, playable_cards>>

\* One call of decide_trump by seat s: trump_suit takes the value returned,
\* or the call raises.
AskSeat(s, up, hidden) ==
  \E r \in decide_trump(trump_logic[s], up, hidden) :
    IF r = "AttributeError"
    THEN pc' = "crashed" /\ UNCHANGED trump_suit
    ELSE pc' = "bidding" /\ trump_suit' = r

\* determine_trump, lines 294-295
DetermineTrump ==
  /\ pc = "determine_trump"
  /\ curr_seat' = (dealer + 1) % 4
  /\ AskSeat((dealer + 1) % 4, up_card, hidden_up_card)
  /\ UNCHANGED <<rounds, config, hand, deck, dealer, up_card, hidden_up_card,
                 left_bower_suit, lead_seat, trump_caller, scores, cards_played,
                 tricks_won, num_cards_played, playable_cards>>

\* determine_trump, lines 297-310: the seat passed and the next seat is asked
Pass ==
  /\ pc = "bidding"
  /\ ~Truthy(trump_suit)
  /\ LET nxt == (curr_seat + 1) % 4
         wrapped == nxt = (dealer + 1) % 4
     IN /\ ~(wrapped /\ ~IsCard(up_card))
        /\ curr_seat' = nxt
        /\ IF wrapped
           THEN /\ hidden_up_card' = up_card
                /\ deck' = Append(deck, up_card)
                /\ up_card' = NoCard
                /\ AskSeat(nxt, NoCard, up_card)
           ELSE /\ UNCHANGED <<hidden_up_card, deck, up_card>>
                /\ AskSeat(nxt, up_card, hidden_up_card)
  /\ UNCHANGED <<rounds, config, hand, dealer, left_bower_suit, lead_seat, trump_caller,
                 scores, cards_played, tricks_won, num_cards_played, playable_cards>>

\* determine_trump returns False (line 308) and play_round gives the round
\* up (lines 388-393)
NoTrump ==
  /\ pc = "bidding"
  /\ ~Truthy(trump_suit)
  /\ (curr_seat + 1) % 4 = (dealer + 1) % 4
  /\ ~IsCard(up_card)
  /\ dealer' = NextDealer(dealer)
  /\ curr_seat' = (NextDealer(dealer) + 1) % 4
  /\ pc' = "play"
  /\ UNCHANGED <<rounds, config, hand, deck, up_card, hidden_up_card, trump_suit,
                 left_bower_suit, lead_seat, trump_caller, scores, cards_played,
                 tricks_won, num_cards_played, playable_cards>>

\* determine_trump, lines 312-326, and play_round, line 396
TrumpDetermined ==
  /\ pc = "bidding"
  /\ Truthy(trump_suit)
  /\ left_bower_suit' = LeftBowerFor(trump_suit, left_bower_suit)
  /\ trump_caller' = curr_seat
  /\ curr_seat' = (dealer + 1) % 4
  /\ hand' = sort_player_hands(hand, trump_suit, LeftBowerFor(trump_suit, left_bower_suit))
  /\ tricks_won_02' = 0
  /\ tricks_won_13' = 0
  /\ pc' = "tricks"
  /\ UNCHANGED <<rounds, config, deck, dealer, up_card, hidden_up_card, trump_suit,
                 lead_seat, scores, cards_played, num_cards_played, playable_cards>>

\* play_round, lines 397-401, and play_trick, line 330
StartTrick ==
  /\ pc = "tricks"
  /\ tricks_won_02 + tricks_won_13 < 5
  /\ lead_seat' = curr_seat
  /\ cards_played' = NoCards
  /\ num_cards_played' = 0
  /\ pc' = "play_trick"
  /\ UNCHANGED <<rounds, config, hand, deck, dealer, curr_seat, up_card, hidden_up_card,
                 trump_suit, left_bower_suit, trump_caller, scores, tricks_won,
                 playable_cards>>

\* NextSeat without the move to the next seat.
SameSeat(s) == s

\* play_trick, line 336: the seat that plays after seat s.
NextSeat(s) == (s + 1) % 4

\* play_trick, lines 331-337: one call of play_card
PlayCard ==
  /\ pc = "play_trick"
  /\ num_cards_played < 4
  /\ LET h == hand[curr_seat]
         playable == PlayableCards(h, cards_played[lead_seat], trump_suit, left_bower_suit)
         choices == ChosenCards(card_logic[curr_seat], h, playable)
     IN /\ playable_cards' = playable
        /\ IF choices = {}
           THEN /\ pc' = "crashed"
                /\ UNCHANGED <<hand, cards_played, curr_seat, num_cards_played>>
           ELSE /\ \E choice \in choices :
                     /\ hand' = [hand EXCEPT ![curr_seat] = Remove(h, choice)]
                     /\ cards_played' = [cards_played EXCEPT ![curr_seat] = choice]
                /\ curr_seat' = NextSeat(curr_seat)
                /\ num_cards_played' = num_cards_played + 1
                /\ pc' = "play_trick"
  /\ UNCHANGED <<rounds, config, deck, dealer, up_card, hidden_up_card, trump_suit,
                 left_bower_suit, lead_seat, trump_caller, scores, tricks_won>>

\* tally_trick counting the trick for both teams.
tally_trick_both(winning_player, won_02, won_13) == <<won_02 + 1, won_13 + 1>>

\* process_trick, lines 377-380: the new <<tricks_won_02, tricks_won_13>>.
tally_trick(winning_player, won_02, won_13) ==
  IF winning_player \in {0, 2} THEN <<won_02 + 1, won_13>> ELSE <<won_02, won_13 + 1>>

\* play_trick, line 338: process_trick
ProcessTrick ==
  /\ pc = "play_trick"
  /\ num_cards_played = 4
  /\ LET winning_player == process_trick(cards_played, lead_seat, trump_suit, left_bower_suit)
     IN /\ tricks_won_02' = tally_trick(winning_player, tricks_won_02, tricks_won_13)[1]
        /\ tricks_won_13' = tally_trick(winning_player, tricks_won_02, tricks_won_13)[2]
        /\ curr_seat' = winning_player
  /\ pc' = "tricks"
  /\ UNCHANGED <<rounds, config, hand, deck, dealer, up_card, hidden_up_card, trump_suit,
                 left_bower_suit, lead_seat, trump_caller, scores, cards_played,
                 num_cards_played, playable_cards>>

\* play_round, lines 402-406: process_round and the dealer's rotation
ProcessRound ==
  /\ pc = "tricks"
  /\ ~(tricks_won_02 + tricks_won_13 < 5)
  /\ LET s == process_round(trump_caller, tricks_won_02, tricks_won_13, score_02, score_13)
     IN score_02' = s[1] /\ score_13' = s[2]
  /\ dealer' = NextDealer(dealer)
  /\ curr_seat' = (NextDealer(dealer) + 1) % 4
  /\ pc' = "play"
  /\ UNCHANGED <<rounds, config, hand, deck, up_card, hidden_up_card, trump_suit,
                 left_bower_suit, lead_seat, trump_caller, cards_played, tricks_won,
                 num_cards_played, playable_cards>>

Next ==
  \/ DetermineDealer
  \/ EuchreDealCards
  \/ GameOver
  \/ DetermineTrump
  \/ Pass
  \/ NoTrump
  \/ TrumpDetermined
  \/ StartTrick
  \/ PlayCard
  \/ ProcessTrick
  \/ ProcessRound

Spec == Init /\ [][Next]_vars

\* play() runs on as long as it has a step to take: main calls it once and
\* nothing suspends it.
FairSpec == Spec /\ WF_vars(Next)

TypeOK ==
  /\ dealer \in Seats /\ curr_seat \in Seats
  /\ score_02 \in 0..11 /\ score_13 \in 0..11
  /\ tricks_won_02 \in 0..5 /\ tricks_won_13 \in 0..5

\* ------------------------------------------------ process_trick on its own

\* The tricks process_trick is given: four distinct cards, one per seat.
Tricks == {t \in [Seats -> Cards] : \A a, b \in Seats : a # b => t[a] # t[b]}

\* Every trump suit and every lead seat, each suit with one seat.
TrickContexts == {<<suits[i], i - 1>> : i \in 1..4}

\* The table when play_trick calls process_trick for the last trick of a
\* round: every seat has played, curr_seat is back at lead_seat and the
\* hands are empty.  The trump was agreed on the up-card, so that
\* determine_trump set the left bower suit from it.
InitTrick ==
  /\ trump_logic = AllSeats("RANDOM")
  /\ card_logic = AllSeats("PLAYER")
  /\ hand = EmptyHands
  /\ deck = <<>>
  /\ dealer = 0
  /\ up_card = NoCard
  /\ hidden_up_card = NoCard
  /\ \E x \in TrickContexts : trump_suit = x[1] /\ lead_seat = x[2]
  /\ left_bower_suit = LeftBowerFor(trump_suit, None)
  /\ curr_seat = lead_seat
  /\ trump_caller = 0
  /\ score_02 = 0
  /\ score_13 = 0
  /\ cards_played \in Tricks
  /\ tricks_won_02 = 2
  /\ tricks_won_13 = 2
  /\ num_cards_played = 4
  /\ playable_cards = <<>>
  /\ rounds = 1
  /\ pc = "play_trick"

SpecTrick == InitTrick /\ [][ProcessTrick]_vars

\* --------------------------------------------------- play_card on its own

\* A set of cards as a list, in deck order.
RECURSIVE SetToSeq(_)
SetToSeq(S) ==
  IF S = {} THEN <<>>
  ELSE LET c == CHOOSE x \in S : \A y \in S : x <= y
       IN <<c>> \o SetToSeq(S \ {c})

\* The sets of at most n cards.
RECURSIVE UpTo(_)
UpTo(n) ==
  IF n = 0 THEN {{}}
  ELSE LET smaller == UpTo(n - 1)
       IN smaller \cup {S \cup {c} : S \in smaller, c \in Cards}

\* The hands play_card is tried on: one to MaxHand cards.
Hands == UpTo(MaxHand) \ {{}}

\* <<trump_suit, left_bower_suit, lead_seat>>: a trump agreed on the up-card,
\* with the left bower suit determine_trump sets for it, and a trump named in
\* the second bidding round, a glyph string for which determine_trump leaves
\* left_bower_suit as it was (None, or the suit of an earlier round).
PlayContexts ==
  {<<suits[i], LeftBowerFor(suits[i], None), i - 1>> : i \in 1..4}
  \cup {<<SuitValue(suits[i]), IF i = 1 THEN None ELSE suits[i], i - 1>> : i \in 1..4}

\* The table when play_trick calls play_card: either nobody has played and
\* the seat to play leads, or the lead seat has played and the next seat
\* follows.  The hand of the seat to play is sorted as TrumpDetermined left
\* it; the call reads no other hand, and they are left empty, the lead card
\* having been the last of its hand.
InitPlay ==
  /\ trump_logic = AllSeats("RANDOM")
  /\ card_logic = AllSeats("RANDOM")
  /\ deck = <<>>
  /\ dealer = 0
  /\ up_card = NoCard
  /\ hidden_up_card = NoCard
  /\ \E x \in PlayContexts :
       trump_suit = x[1] /\ left_bower_suit = x[2] /\ lead_seat = x[3]
  /\ \E lead_card \in Cards \cup {NoCard} :
       /\ cards_played = [s \in Seats |-> IF s = lead_seat THEN lead_card ELSE NoCard]
       /\ num_cards_played = IF IsCard(lead_card) THEN 1 ELSE 0
       /\ playable_cards = IF IsCard(lead_card) THEN <<lead_card>> ELSE <<>>
       /\ curr_seat = IF IsCard(lead_card) THEN (lead_seat + 1) % 4 ELSE lead_seat
       /\ \E S \in Hands :
            /\ lead_card \notin S
            /\ hand = [s \in Seats |->
                         IF s = curr_seat
                         THEN sort_hand(SetToSeq(S), trump_suit, left_bower_suit)
                         ELSE <<>>]
  /\ trump_caller = 0
  /\ score_02 = 0
  /\ score_13 = 0
  /\ tricks_won_02 = 0
  /\ tricks_won_13 = 0
  /\ rounds = 1
  /\ pc = "play_trick"

\* One call of play_card by a seat that holds a card.
PlayCardHolding == hand[curr_seat] # <<>> /\ PlayCard

SpecPlay == InitPlay /\ [][PlayCardHolding]_vars

\* ------------------------------------------------ process_round on its own

\* The table when play_round calls process_round: five tricks are won, and
\* neither score has reached WinningScore, or play would not have entered
\* the round.
InitRound ==
  /\ trump_logic = AllSeats("RANDOM")
  /\ card_logic = AllSeats("PLAYER")
  /\ hand = EmptyHands
  /\ deck = <<>>
  /\ dealer \in Seats
  /\ curr_seat \in Seats
  /\ up_card = NoCard
  /\ hidden_up_card = NoCard
  /\ trump_suit = "SPADES"
  /\ left_bower_suit = "CLUBS"
  /\ lead_seat = curr_seat
  /\ trump_caller \in Seats
  /\ score_02 \in 0..(WinningScore - 1)
  /\ score_13 \in 0..(WinningScore - 1)
  /\ cards_played = NoCards
  /\ tricks_won_02 \in 0..5
  /\ tricks_won_13 = 5 - tricks_won_02
  /\ num_cards_played = 4
  /\ playable_cards = <<>>
  /\ rounds = 1
  /\ pc = "tricks"

SpecRound == InitRound /\ [][ProcessRound]_vars

\* --------------------------------------------------- sort_hand on its own

\* The hands of max_hand_size cards.
FullHands == {S \in UpTo(max_hand_size) : Cardinality(S) = max_hand_size}

\* The orders in which a hand of five cards reaches sort_hand: add_card
\* appends the cards as they are dealt, in any order; the model takes the
\* first NumOrders of these rearrangements of the deck order.
Orders == << <<5, 4, 3, 2, 1>>, <<3, 1, 5, 2, 4>>, <<2, 5, 1, 4, 3>>, <<1, 2, 3, 4, 5>> >>
Arrange(q, k) == [i \in 1..Len(q) |-> q[Orders[((k - 1) % 4) + 1][i]]]

\* <<trump_suit, left_bower_suit>> as sort_player_hands finds them: no trump
\* yet, a trump agreed on the up-card, and a trump named in the second
\* bidding round with the left bower suit left as it was.
SortContexts ==
  {<<None, None>>}
  \cup {<<s, LeftBowerFor(s, None)>> : s \in Suits}
  \cup {<<SuitValue("HEARTS"), "CLUBS">>}

\* The table when sort_player_hands is called: seat 0 holds five cards.
InitSort ==
  /\ trump_logic = AllSeats("RANDOM")
  /\ card_logic = AllSeats("RANDOM")
  /\ \E S \in FullHands, k \in 1..NumOrders :
       hand = [s \in Seats |-> IF s = 0 THEN Arrange(SetToSeq(S), k) ELSE <<>>]
  /\ deck = <<>>
  /\ dealer = 0
  /\ curr_seat = 1
  /\ up_card = NoCard
  /\ hidden_up_card = NoCard
  /\ \E x \in SortContexts : trump_suit = x[1] /\ left_bower_suit = x[2]
  /\ lead_seat = NoSeat
  /\ trump_caller = NoSeat
  /\ score_02 = 0
  /\ score_13 = 0
  /\ cards_played = NoCards
  /\ tricks_won_02 = 0
  /\ tricks_won_13 = 0
  /\ num_cards_played = 0
  /\ playable_cards = <<>>
  /\ rounds = 1
  /\ pc = "sort"

\* sort_player_hands, called a first and a second time.
SortPlayerHands ==
  /\ pc \in {"sort", "sorted"}
  /\ hand' = sort_player_hands(hand, trump_suit, left_bower_suit)
  /\ pc' = IF pc = "sort" THEN "sorted" ELSE "sorted_again"
  /\ UNCHANGED <<rounds, config, deck, dealer, curr_seat, up_card, hidden_up_card,
                 trump_suit, left_bower_suit, lead_seat, trump_caller, scores,
                 cards_played, tricks_won, num_cards_played, playable_cards>>

SpecSort == InitSort /\ [][SortPlayerHands]_vars

\* ---------------------------------------------- determine_dealer on its own

\* The black Jacks, and the other 22 cards in deck order.
BlackJacks == {Card("J", "SPADES"), Card("J", "CLUBS")}
PlainCards == SetToSeq(Cards \ BlackJacks)

\* The deck with the Jack of Spades at place i, the Jack of Clubs at place j
\* and the other cards in deck order at the remaining places.
JackDeck(i, j) ==
  [p \in 1..24 |->
     IF p = i THEN Card("J", "SPADES")
     ELSE IF p = j THEN Card("J", "CLUBS")
     ELSE PlainCards[p - Cardinality({q \in {i, j} : q < p})]]

\* The outcomes of random.shuffle that determine_dealer is tried on: its
\* loop reads of a card only whether it is a black Jack, and these decks put
\* the two black Jacks at every pair of places.
JackDecks == {JackDeck(x[1], x[2]) : x \in {y \in (1..24) \X (1..24) : y[1] # y[2]}}

\* The table inside determine_dealer, the deck shuffled (line 251).
InitDealer ==
  /\ trump_logic = AllSeats("RANDOM")
  /\ card_logic = AllSeats("RANDOM")
  /\ hand = EmptyHands
  /\ deck \in JackDecks
  /\ dealer = 0
  /\ curr_seat = 0
  /\ up_card = NoCard
  /\ hidden_up_card = NoCard
  /\ trump_suit = None
  /\ left_bower_suit = None
  /\ lead_seat = NoSeat
  /\ trump_caller = NoSeat
  /\ score_02 = 0
  /\ score_13 = 0
  /\ cards_played = NoCards
  /\ tricks_won_02 = 0
  /\ tricks_won_13 = 0
  /\ num_cards_played = 0
  /\ playable_cards = <<>>
  /\ rounds = 0
  /\ pc = "determine_dealer"

\* determine_dealer from line 252 on, dealing from the deck as shuffled.
DealFromShuffled == pc = "determine_dealer" /\ DealForDealer(deck)

SpecDealer == InitDealer /\ [][DealFromShuffled]_vars

\* ------------------------------------------------------------------ claims

\* The suit of the same colour (the table of the specification).
SameColour(s) ==
  CASE s = "SPADES" -> "CLUBS"
    [] s = "CLUBS" -> "SPADES"
    [] s = "HEARTS" -> "DIAMONDS"
    [] s = "DIAMONDS" -> "HEARTS"

IsRightBower(c) == trump_suit \in Suits /\ Rank(c) = "J" /\ Suit(c) = trump_suit
IsLeftBower(c) == trump_suit \in Suits /\ Rank(c) = "J" /\ Suit(c) = SameColour(trump_suit)

\* Rank order 9 < 10 < J < Q < K < A.
RankOrder(c) == CHOOSE i \in 1..6 : ranks[i] = Rank(c)

\* process_trick has resolved the trick on the table: curr_seat is its winner.
TrickResolved == pc = "tricks" /\ tricks_won_02 + tricks_won_13 > 0 /\ trump_suit \in Suits

OnTable == {cards_played[s] : s \in Seats}

\* C1: a seat that played the Jack of the trump suit wins the trick,
\* wherever it sat and whatever was winning before it.
RightBowerWins ==
  TrickResolved => \A s \in Seats : IsRightBower(cards_played[s]) => curr_seat = s

\* C2: when the left bower Jack is played and the Jack of trump is not, the
\* seat of the left bower wins the trick.
LeftBowerWins ==
  TrickResolved =>
    \A s \in Seats :
      (IsLeftBower(cards_played[s]) /\ \A c \in OnTable : ~IsRightBower(c)) => curr_seat = s

\* The left bower was played on a led trump Ace, and no right bower.
LeftBowerOnTrumpAce ==
  /\ TrickResolved
  /\ Rank(cards_played[lead_seat]) = "A" /\ Suit(cards_played[lead_seat]) = trump_suit
  /\ \E s \in Seats : IsLeftBower(cards_played[s])
  /\ \A c \in OnTable : ~IsRightBower(c)

\* C3: with neither bower on the table, the highest trump-suit card wins if
\* a trump was played, and otherwise the highest card of the led suit.
NoBowerTrick ==
  (TrickResolved /\ \A c \in OnTable : ~IsRightBower(c) /\ ~IsLeftBower(c)) =>
    LET trumps == {c \in OnTable : Suit(c) = trump_suit}
        led == {c \in OnTable : Suit(c) = Suit(cards_played[lead_seat])}
        best == IF trumps # {} THEN trumps ELSE led
        winner == cards_played[curr_seat]
    IN winner \in best /\ \A c \in best : RankOrder(c) <= RankOrder(winner)

\* A plain card was led and two later seats trumped it, no bower played.
TrumpedTwice ==
  /\ TrickResolved
  /\ \A c \in OnTable : ~IsRightBower(c) /\ ~IsLeftBower(c)
  /\ Suit(cards_played[lead_seat]) # trump_suit
  /\ Cardinality({c \in OnTable : Suit(c) = trump_suit}) = 2

\* The seat whose play_card call came last, and its hand before the call.
LastSeat == (curr_seat + 3) % 4
HandBefore == Range(hand[LastSeat]) \cup {cards_played[LastSeat]}
LeadCard == cards_played[lead_seat]

\* A seat has followed a lead: playable_cards is what play_card computed for it.
Followed == pc = "play_trick" /\ num_cards_played >= 2

\* C4: when the left bower Jack is led, the playable cards of a following
\* hand are its trump-suit cards if it holds any, and the whole hand if not.
LeftBowerLeadCallsTrump ==
  (Followed /\ IsLeftBower(LeadCard)) =>
    LET trumps == {c \in HandBefore : Suit(c) = trump_suit}
    IN Range(playable_cards) = IF trumps # {} THEN trumps ELSE HandBefore

\* C5: when a card of the left bower suit other than its Jack is led, a hand
\* holding the left bower Jack and other cards of that suit may play exactly
\* those other cards.
LeftBowerLeavesItsSuit ==
  (/\ Followed
   /\ trump_suit \in Suits
   /\ Suit(LeadCard) = SameColour(trump_suit)
   /\ Rank(LeadCard) # "J") =>
    LET others == {c \in HandBefore : Suit(c) = Suit(LeadCard) /\ Rank(c) # "J"}
    IN ((\E c \in HandBefore : IsLeftBower(c)) /\ others # {}) =>
         Range(playable_cards) = others

\* Trump Spades, the 10 of Clubs led, the hand held the Jack and 9 of Clubs.
NineOfClubsOnly ==
  /\ Followed
  /\ trump_suit = "SPADES"
  /\ LeadCard = Card("10", "CLUBS")
  /\ HandBefore = {Card("J", "CLUBS"), Card("9", "CLUBS")}
  /\ playable_cards = <<Card("9", "CLUBS")>>

\* C6: when a trump-suit card is led, the playable cards of a following hand
\* are its trump-suit cards and the left bower Jack, if it holds any of them.
TrumpLeadCallsLeftBower ==
  (Followed /\ trump_suit \in Suits /\ Suit(LeadCard) = trump_suit) =>
    LET trumps == {c \in HandBefore : Suit(c) = trump_suit \/ IsLeftBower(c)}
    IN trumps # {} => Range(playable_cards) = trumps

\* A trump was led and the hand's only trump was the left bower Jack, held
\* with another card.
OnlyTheLeftBower ==
  /\ Followed
  /\ trump_suit \in Suits
  /\ Suit(LeadCard) = trump_suit
  /\ Cardinality(HandBefore) >= 2
  /\ \E c \in HandBefore :
       /\ IsLeftBower(c)
       /\ \A d \in HandBefore \ {c} : Suit(d) # trump_suit
       /\ playable_cards = <<c>>

\* C7: play_card never lacks a card to choose from; its playable cards are
\* cards of the hand, at least one, and the whole hand for the seat that leads.
PlayableNonEmpty ==
  /\ pc # "crashed"
  /\ (pc = "play_trick" /\ num_cards_played >= 1) =>
       /\ playable_cards # <<>>
       /\ Range(playable_cards) \subseteq HandBefore
       /\ num_cards_played = 1 => Range(playable_cards) = HandBefore

\* A hand with no card of the led suit followed, under a trump named in the
\* second bidding round.
FollowedWithoutSuit ==
  /\ Followed
  /\ trump_suit \in SuitValues
  /\ Cardinality(HandBefore) >= 2
  /\ \A c \in HandBefore : Suit(c) # Suit(LeadCard)

\* C8: the card a seat places on the trick is one of the playable cards
\* computed for it, whatever its card decision logic.
PlayedCardIsPlayable ==
  (pc = "play_trick" /\ num_cards_played >= 1) =>
    cards_played[LastSeat] \in Range(playable_cards)

\* C9: process_round adds 2 to the callers' score for 5 tricks, 1 for 3 or 4,
\* and 2 to the other team's for fewer; the other score stays.
RoundScoring ==
  [][(pc = "tricks" /\ pc' = "play") =>
       LET callers_02 == trump_caller \in {0, 2}
           taken == IF callers_02 THEN tricks_won_02 ELSE tricks_won_13
           gain_callers == IF taken = 5 THEN 2 ELSE IF taken \in {3, 4} THEN 1 ELSE 0
           gain_others == IF taken \in {0, 1, 2} THEN 2 ELSE 0
       IN /\ score_02' = score_02 + (IF callers_02 THEN gain_callers ELSE gain_others)
          /\ score_13' = score_13 + (IF callers_02 THEN gain_others ELSE gain_callers)]_vars

\* Seat 1 called, its team took 2 tricks and the other team went from 0 to 2.
Euchred ==
  /\ pc = "play"
  /\ trump_caller = 1
  /\ tricks_won_13 = 2 /\ tricks_won_02 = 3
  /\ score_02 = 2 /\ score_13 = 0

\* Every seat has passed on the up-card and passed again: the dealer, asked
\* last, passed with the up-card turned down.
AllPassedTwice ==
  pc = "bidding" /\ ~Truthy(trump_suit) /\ ~IsCard(up_card) /\ curr_seat = dealer

\* C10: when all four seats pass twice, play_round ends with no trump, no
\* trick played, both scores unchanged and the dealer one seat on.
NoTrumpRound ==
  [][AllPassedTwice =>
       /\ pc' = "play"
       /\ trump_suit' = None
       /\ dealer' = (dealer + 1) % 4
       /\ score_02' = score_02 /\ score_13' = score_13
       /\ tricks_won_02' = tricks_won_02 /\ tricks_won_13' = tricks_won_13
       /\ cards_played' = cards_played
       /\ hand' = hand /\ \A s \in Seats : Len(hand'[s]) = max_hand_size]_vars

\* A round has just been given up: no trump, the up-card turned down.
RoundGivenUp ==
  /\ pc = "play"
  /\ rounds >= 1
  /\ ~Truthy(trump_suit)
  /\ ~IsCard(up_card)
  /\ IsCard(hidden_up_card)
  /\ score_02 = 0 /\ score_13 = 0

\* The cards held by the four seats.
InHands == UNION {Range(hand[s]) : s \in Seats}

\* euchre_deal_cards has just returned.
Dealt == pc = "determine_trump"

\* C11: at the end of euchre_deal_cards in every round, each hand holds 5
\* cards dealt from the deck shuffled for that round, the up-card is the 21st
\* card dealt from it, the 21 cards are pairwise distinct and 3 cards remain
\* in the deck.
DealtFromFreshDeck ==
  Dealt =>
    \E k \in 1..NumShuffles :
      LET d == shuffle(k)
      IN /\ \A s \in Seats : Len(hand[s]) = 5
         /\ InHands = {d[i] : i \in 5..24}
         /\ up_card = d[4]
         /\ Cardinality(InHands \cup {up_card}) = 21
         /\ deck = SubSeq(d, 1, 3)

\* C12: whenever the table is not in the middle of determine_trump, a defined
\* trump_suit is one of the four suits and left_bower_suit is the other suit
\* of its colour, and an undefined trump_suit has an undefined left_bower_suit.
LeftBowerMatchesTrump ==
  pc # "bidding" =>
    /\ Truthy(trump_suit) =>
         /\ trump_suit \in Suits
         /\ left_bower_suit = SameColour(trump_suit)
         /\ left_bower_suit # trump_suit
    /\ ~Truthy(trump_suit) => left_bower_suit = None

\* A seat has just named a trump in the second bidding round.
SecondRoundNamed == pc = "bidding" /\ Truthy(trump_suit) /\ ~IsCard(up_card)

\* The suits a value of trump_suit stands for, as Suit member or as glyph.
SuitsNamed(v) == {s \in Suits : v = s \/ v = SuitValue(s)}

\* C13: the suit a seat names as trump in the second bidding round is never
\* the suit of the up-card turned down in that round.
TurnedDownSuitNotNamed ==
  SecondRoundNamed =>
    /\ IsCard(hidden_up_card)
    /\ SuitsNamed(trump_suit) # {}
    /\ Suit(hidden_up_card) \notin SuitsNamed(trump_suit)

\* The dealer, last to be asked, named a trump in the second bidding round.
DealerNamedTrump == SecondRoundNamed /\ curr_seat = dealer

\* C14: once a round leaves a score at 10 or more no further round is started
\* and the game ends; a game ends only so, with one team at 10 or 11 and the
\* other at 9 or less.
GameStopsAtTen ==
  /\ (score_02 >= 10 \/ score_13 >= 10) =>
       /\ pc \in {"play", "game_over"}
       /\ \/ score_02 \in {10, 11} /\ score_13 <= 9
          \/ score_13 \in {10, 11} /\ score_02 <= 9
  /\ pc = "game_over" => (score_02 >= 10 \/ score_13 >= 10)

\* The game is over, won with 11 points against 9.
WonElevenNine ==
  /\ pc = "game_over"
  /\ {score_02, score_13} = {9, 11}

\* Trump Hearts: the Jack of Diamonds was led, another seat played the Ace of
\* Hearts and nobody the Jack of Hearts.
LedLeftBowerMetAce ==
  /\ TrickResolved
  /\ trump_suit = "HEARTS"
  /\ cards_played[lead_seat] = Card("J", "DIAMONDS")
  /\ Card("A", "HEARTS") \in OnTable
  /\ Card("J", "HEARTS") \notin OnTable

\* C15 as stated: with trump Hearts, the Jack of Diamonds led and the Ace of
\* Hearts played, no Jack of Hearts, the seat of the Ace of Hearts wins.
AceBeatsLedLeftBower ==
  LedLeftBowerMetAce => cards_played[curr_seat] = Card("A", "HEARTS")

\* C15: with trump Hearts, the Jack of Diamonds led and the Ace of Hearts
\* played, no Jack of Hearts, the seat that led the Jack of Diamonds wins.
LedLeftBowerBeatsAce ==
  LedLeftBowerMetAce =>
    curr_seat = lead_seat /\ cards_played[curr_seat] = Card("J", "DIAMONDS")

\* The scenario, with the seat next to the leader holding the Ace of Hearts
\* and the trick gone to the leader's team.
LeftBowerKeptTheTrick ==
  /\ LedLeftBowerMetAce
  /\ cards_played[(lead_seat + 1) % 4] = Card("A", "HEARTS")
  /\ curr_seat = lead_seat

\* C16: sort_hand leaves a hand of 5 distinct cards a permutation of what it
\* was, and sorting a sorted hand leaves its order unchanged.
SortPermutesAndSettles ==
  [][\A s \in Seats :
       /\ Len(hand'[s]) = Len(hand[s])
       /\ Range(hand'[s]) = Range(hand[s])
       /\ Cardinality(Range(hand'[s])) = Len(hand'[s])
       /\ pc = "sorted" => hand'[s] = hand[s]]_vars

\* Trump Spades: a hand sorted twice begins with the Jack of Spades and the
\* Jack of Clubs, and ends with the Ace of Diamonds before the 9 of Diamonds.
BowersSortedFirst ==
  /\ pc = "sorted_again"
  /\ trump_suit = "SPADES"
  /\ SubSeq(hand[0], 1, 2) = <<Card("J", "SPADES"), Card("J", "CLUBS")>>
  /\ SubSeq(hand[0], 4, 5) = <<Card("A", "DIAMONDS"), Card("9", "DIAMONDS")>>

\* play_round returns: a round played to 5 tricks, or given up for no trump.
RoundEnds == pc \in {"tricks", "bidding"} /\ pc' = "play"

\* C17: every round, played or given up, ends with the dealer one seat on;
\* the dealer, once determine_dealer has seated it, changes at no other step,
\* and the first decision of a round's bidding is asked of the seat left of it.
DealerRotates ==
  [][/\ RoundEnds => dealer' = (dealer + 1) % 4
     /\ (~RoundEnds /\ pc # "determine_dealer") => dealer' = dealer
     /\ (pc = "determine_trump" /\ pc' = "bidding") => curr_seat' = (dealer + 1) % 4]_vars

\* The second round's bidding has begun after a round played to 5 tricks:
\* the deal has moved on and the seat left of the new dealer is asked.
SecondRoundBidding ==
  /\ pc = "bidding"
  /\ rounds = 2
  /\ score_02 + score_13 > 0
  /\ IsCard(up_card)
  /\ curr_seat = (dealer + 1) % 4

\* C18: the first decision of a round is asked of the seat left of the dealer
\* with the up-card on offer; after a pass the next seat in rotation is asked,
\* the up-card being turned down when the rotation has gone round once and no
\* seat being asked when it has gone round twice; the first seat that does
\* not pass ends the bidding and becomes trump_caller; a trump agreed while
\* the up-card is on offer is the up-card's suit.
BiddingInRotation ==
  [][/\ (pc = "determine_trump" /\ pc' # pc) =>
          /\ IsCard(up_card)
          /\ curr_seat' = (dealer + 1) % 4
     /\ (pc = "bidding" /\ pc' = "bidding") =>
          /\ ~Truthy(trump_suit)
          /\ curr_seat' = (curr_seat + 1) % 4
          /\ IF curr_seat = dealer
             THEN IsCard(up_card) /\ ~IsCard(up_card')
             ELSE up_card' = up_card
     /\ (pc = "bidding" /\ Truthy(trump_suit)) =>
          /\ pc' = "tricks"
          /\ trump_caller' = curr_seat
          /\ trump_suit' = trump_suit
     /\ (pc = "bidding" /\ pc' = "play") =>
          /\ ~Truthy(trump_suit)
          /\ curr_seat = dealer
          /\ ~IsCard(up_card)
     /\ (pc' = "bidding" /\ Truthy(trump_suit') /\ IsCard(up_card')) =>
          trump_suit' = Suit(up_card')]_vars

\* The third seat asked accepted the up-card after two passes and has become
\* trump_caller.
ThirdSeatAccepted ==
  /\ pc = "tricks"
  /\ tricks_won_02 + tricks_won_13 = 0
  /\ IsCard(up_card)
  /\ trump_suit = Suit(up_card)
  /\ trump_caller = (dealer + 3) % 4

\* C19: while a trick is played, the seats from lead_seat on in rotation have
\* a card on the table, one for each card played, and the seat after them is
\* to play; playing a card moves one card of the seat's hand to its place on
\* the table; the trick is scored when 4 cards are played; the first trick of
\* a round is led by the seat left of the dealer and every later trick by the
\* winner of the trick before it.
TrickInRotation ==
  [][/\ pc' = "play_trick" =>
          /\ num_cards_played' \in 0..4
          /\ curr_seat' = (lead_seat' + num_cards_played') % 4
          /\ \A i \in 0..3 :
               IsCard(cards_played'[(lead_seat' + i) % 4]) <=> i < num_cards_played'
     /\ (pc = "play_trick" /\ pc' = "play_trick") =>
          /\ num_cards_played' = num_cards_played + 1
          /\ lead_seat' = lead_seat
          /\ cards_played'[curr_seat] \in Range(hand[curr_seat])
          /\ Range(hand'[curr_seat]) = Range(hand[curr_seat]) \ {cards_played'[curr_seat]}
          /\ Len(hand'[curr_seat]) = Len(hand[curr_seat]) - 1
          /\ \A s \in Seats \ {curr_seat} :
               hand'[s] = hand[s] /\ cards_played'[s] = cards_played[s]
     /\ (pc = "play_trick" /\ pc' # "play_trick") =>
          pc' = "tricks" /\ num_cards_played = 4
     /\ (pc = "tricks" /\ pc' = "play_trick") =>
          lead_seat' = IF tricks_won_02 + tricks_won_13 = 0
                       THEN (dealer + 1) % 4
                       ELSE process_trick(cards_played, lead_seat, trump_suit, left_bower_suit)]_vars

\* All four seats have played to a later trick of a round, led by a seat
\* other than the one left of the dealer.
LaterTrickPlayed ==
  /\ pc = "play_trick"
  /\ num_cards_played = 4
  /\ tricks_won_02 + tricks_won_13 >= 1
  /\ lead_seat # (dealer + 1) % 4
  /\ \A s \in Seats : IsCard(cards_played[s])

\* Tricks taken in the round so far.
TricksTaken == tricks_won_02 + tricks_won_13

\* C20: in a round with a trump each team's trick count stays in 0..5 and the
\* two sum to at most 5; between tricks every hand holds 5 cards less the
\* tricks taken; scoring a trick adds 1 to the count of the winning seat's
\* team and nothing to the other; process_round runs when the counts sum to 5
\* and every hand is empty.
FiveTricksARound ==
  [][/\ (pc = "bidding" /\ pc' = "tricks") =>
          /\ tricks_won_02' = 0 /\ tricks_won_13' = 0
          /\ \A s \in Seats : Len(hand'[s]) = 5
     /\ pc' \in {"tricks", "play_trick"} =>
          /\ tricks_won_02' \in 0..5 /\ tricks_won_13' \in 0..5
          /\ TricksTaken' <= 5
     /\ pc' = "tricks" => \A s \in Seats : Len(hand'[s]) = 5 - TricksTaken'
     /\ (pc = "tricks" /\ pc' = "play_trick") => TricksTaken < 5
     /\ (pc = "play_trick" /\ pc' = "tricks") =>
          /\ curr_seat' = process_trick(cards_played, lead_seat, trump_suit, left_bower_suit)
          /\ tricks_won_02' = tricks_won_02 + (IF curr_seat' \in {0, 2} THEN 1 ELSE 0)
          /\ tricks_won_13' = tricks_won_13 + (IF curr_seat' \in {1, 3} THEN 1 ELSE 0)
     /\ (pc = "tricks" /\ pc' = "play") =>
          /\ TricksTaken = 5
          /\ \A s \in Seats : hand[s] = <<>>]_vars

\* The fifth trick of a round is taken, both teams having won tricks, and
\* every hand is empty.
FifthTrickTaken ==
  /\ pc = "tricks"
  /\ TricksTaken = 5
  /\ tricks_won_02 \in 1..4
  /\ \A s \in Seats : hand[s] = <<>>

\* The cards of deck d in the order they are dealt, the last of the list first.
DealOrder(d) == [i \in 1..Len(d) |-> d[Len(d) + 1 - i]]

\* C21: determine_dealer ends without running out of cards; the dealer is
\* the seat, counting from seat 0 one card a seat and round the table, that
\* was dealt the first black Jack, the seat left of it is the current seat,
\* and the cards after that Jack stay in the deck.
FirstBlackJackDeals ==
  [][pc = "determine_dealer" =>
       LET order == DealOrder(deck)
           first == CHOOSE i \in 1..Len(order) :
                      /\ order[i] \in BlackJacks
                      /\ \A k \in 1..(i - 1) : order[k] \notin BlackJacks
       IN /\ pc' = "play"
          /\ dealer' = (first - 1) % 4
          /\ curr_seat' = (dealer' + 1) % 4
          /\ deck' = SubSeq(deck, 1, Len(deck) - first)]_vars

\* The first black Jack was the 23rd card dealt, the latest it can come: it
\* went to seat 2 and one card is left.
BlackJackCameLast ==
  /\ pc = "play"
  /\ rounds = 0
  /\ Len(deck) = 1
  /\ deck[1] \in BlackJacks
  /\ dealer = 2
  /\ curr_seat = 3

\* A seat of the table bids with PlayerTrumpDecision.ALWAYS_ACCEPT.
HasAcceptor == \E s \in Seats : trump_logic[s] = "ALWAYS_ACCEPT"

\* On a table with a seat that always accepts: no call raises, the up-card
\* is never turned down and no more than n rounds are entered.
AcceptorKeepsUpCard(n) ==
  HasAcceptor =>
    /\ pc # "crashed"
    /\ pc = "bidding" => IsCard(up_card)
    /\ rounds <= n

\* On such a table every round is played to its end and adds 1 or 2 to the
\* score of exactly one team.
AcceptorRoundScores ==
  (HasAcceptor /\ RoundEnds) =>
    /\ pc = "tricks"
    /\ \/ score_02' - score_02 \in {1, 2} /\ score_13' = score_13
       \/ score_13' - score_13 \in {1, 2} /\ score_02' = score_02

====
